---- MODULE Spec2Model ----
(***************************************************************************)
(* BarcodeDetector (src/src/index.ts): a keydown handler that buffers      *)
(* single-character keys, an inactivity timer of maxDelay milliseconds,    *)
(* and a set of scan listeners.                                            *)
(*                                                                         *)
(* The host is modelled with it: the clock read by Date.now(), the table   *)
(* of pending window.setTimeout timers, the keydown registration on        *)
(* document, and the listeners' view of what they were called with.        *)
(* JavaScript runs every callback to completion, so each callback is one   *)
(* action.  A timer fires at its deadline, before any key press of that    *)
(* same or a later millisecond is dispatched (the timing of the tests'     *)
(* fake timers).                                                           *)
(***************************************************************************)
EXTENDS Integers, Sequences, FiniteSets, TLC

\* ------------------------------------------------------------------ bounds
\* The clock runs from 1 to MaxTime; a run of keys pressed less than
\* maxDelay apart has at most MaxRun keys.
MaxTime == 5
MaxRun == 4

\* ----------------------------------------------------------- input domains
\* Single-character keys a scanner or a typist sends.
Chars == {"a", "b"}
\* Keys the host can report: characters, the termination key and a modifier.
Keys == Chars \cup {"Enter", "Shift"}
\* The listeners an application registers.  L2 throws when called.
Listeners == {"L1", "L2"}
Faulty == {"L2"}
\* What a listener can do when called: return, throw, or call from inside
\* the callback its own unsubscribe closure, the other listener's, onScan
\* for the other listener, or destroy().
Behaviours ==
  {"return", "throw", "unsubscribe", "unsubscribeOther", "onScanOther", "destroy"}
Other(l) == CHOOSE m \in Listeners : m # l

\* The options a detector is constructed with: the defaults scaled down
\* (maxDelay 2 ms, barcodes of 2 to 3 characters), and the same with the
\* debug trace enabled and preventDefault set.
SmallDefaults ==
  [maxDelay |-> 2, terminationKey |-> "Enter", minBarcodeLength |-> 2,
   maxBarcodeLength |-> 3, enableDebugEvents |-> FALSE, preventDefault |-> FALSE]

OptionSets ==
  {SmallDefaults,
   [SmallDefaults EXCEPT !.enableDebugEvents = TRUE, !.preventDefault = TRUE]}

\* timeoutId = null
NoTimer == 0

VARIABLES
  \* the detector's fields
  options, listeners, buffer, debugData, lastKeystrokeTime, timeoutId, isAttached,
  \* the host: clock, pending timers, keydown registration on document, and
  \* whether addEventListener / removeEventListener was ever called redundantly
  now, timers, observer, redundant,
  \* the unsubscribe closures that exist (by listener)
  closures,
  \* the application's own account: the listeners it has registered and not
  \* deregistered since, and those whose unsubscribe closure it has called
  \* since it last registered them
  registered, unsubscribed,
  \* what each listener does when it is called
  behaviour,
  \* the keyboard: the current or latest run of keys (dispatched to the handler
  \* less than maxDelay apart), the time of the last of them, whether a
  \* termination key closed the run, whether a subscriber was registered
  \* during the whole run, the scans emitted since the run began, and how the
  \* buffer was last reset
  typed, lastPress, closed, covered, runScans, prevEnd,
  \* the last operation performed (time passing aside), with what the host and
  \* the listeners saw of it: the scans emitted, whether an error escaped the
  \* callback, whether the event's default action was suppressed
  last

detectorVars == <<options, listeners, buffer, debugData, lastKeystrokeTime, timeoutId, isAttached>>
hostVars == <<now, timers, observer, redundant>>
kbdVars == <<typed, lastPress, closed, covered, runScans>>
appVars == <<registered, unsubscribed>>
vars == <<detectorVars, hostVars, closures, appVars, behaviour, kbdVars, prevEnd, last>>

\* ----------------------------------------------------------------- helpers
\* Array.prototype.join("") on an array of strings.
RECURSIVE Join(_)
Join(s) == IF s = <<>> THEN "" ELSE Head(s) \o Join(Tail(s))

\* The members of a sequence.
Range(s) == {s[i] : i \in 1..Len(s)}

\* Mutant: an array push in place of Set.prototype.add.
SetAddAppends(s, l) == Append(s, l)

\* Set.prototype.add: an element already present keeps its place.
SetAdd(s, l) == IF l \in Range(s) THEN s ELSE Append(s, l)

\* Set.prototype.delete
SetDelete(s, l) == SelectSeq(s, LAMBDA x : x # l)

\* The part of the state a callback reads and writes, as one record; emitted,
\* uncaught and dropped collect what the callback shows to the outside: the
\* scans it emitted, an error that escaped it, and how many buffered keys it
\* dropped without a scan.
Cur ==
  [listeners |-> listeners, buffer |-> buffer, debugData |-> debugData,
   lastKeystrokeTime |-> lastKeystrokeTime, timeoutId |-> timeoutId,
   isAttached |-> isAttached, timers |-> timers, observer |-> observer,
   redundant |-> redundant, prevEnd |-> prevEnd,
   emitted |-> <<>>, uncaught |-> FALSE, dropped |-> 0]

\* The state a callback leaves behind.
Becomes(st) ==
  /\ listeners' = st.listeners
  /\ buffer' = st.buffer
  /\ debugData' = st.debugData
  /\ lastKeystrokeTime' = st.lastKeystrokeTime
  /\ timeoutId' = st.timeoutId
  /\ isAttached' = st.isAttached
  /\ timers' = st.timers
  /\ observer' = st.observer
  /\ redundant' = st.redundant
  /\ prevEnd' = st.prevEnd

\* -------------------------------------------------------------- host calls
\* window.setTimeout: a handle no pending timer uses, due maxDelay from now.
FreshId(st) == CHOOSE i \in 1..(Cardinality(st.timers) + 1) : \A tm \in st.timers : tm.id # i

SetTimeout(st, t) ==
  LET id == FreshId(st)
  IN [st EXCEPT !.timers = @ \cup {[id |-> id, due |-> t + options.maxDelay]},
                !.timeoutId = id]

\* clearTimeout(id)
ClearTimeout(st, id) == [st EXCEPT !.timers = {tm \in @ : tm.id # id}]

\* ------------------------------------------------------- private methods
\* Mutant: clearBuffer that leaves lastKeystrokeTime as it is.
clearBufferKeepsTimestamp(st) ==
  LET s1 == [st EXCEPT !.buffer = <<>>, !.debugData = <<>>]
  IN IF s1.timeoutId # NoTimer
       THEN [ClearTimeout(s1, s1.timeoutId) EXCEPT !.timeoutId = NoTimer]
       ELSE s1

\* Mutant: clearBuffer that forgets to empty the buffer.
clearBufferKeepsBuffer(st) ==
  LET s1 == [st EXCEPT !.debugData = <<>>, !.lastKeystrokeTime = 0]
  IN IF s1.timeoutId # NoTimer
       THEN [s1 EXCEPT !.timers = {tm \in @ : tm.id # s1.timeoutId}, !.timeoutId = NoTimer]
       ELSE s1

clearBuffer(st) ==
  LET s1 == [st EXCEPT !.buffer = <<>>, !.debugData = <<>>, !.lastKeystrokeTime = 0]
  IN IF s1.timeoutId # NoTimer
       THEN [ClearTimeout(s1, s1.timeoutId) EXCEPT !.timeoutId = NoTimer]
       ELSE s1

\* clearBuffer() called to drop a run without a scan: why is remembered for
\* the next run.
Discard(st, why) ==
  [clearBuffer(st) EXCEPT !.prevEnd = why, !.dropped = @ + Len(st.buffer)]

attachGlobalListener(st) ==
  IF st.isAttached THEN st
  ELSE [st EXCEPT !.redundant = @ \/ st.observer, !.observer = TRUE, !.isAttached = TRUE]

removeGlobalListener(st) ==
  IF ~st.isAttached THEN st
  ELSE [st EXCEPT !.redundant = @ \/ ~st.observer, !.observer = FALSE, !.isAttached = FALSE]

\* ------------------------------------------------------------ public API
onScan(st, l) ==
  LET s1 == [st EXCEPT !.listeners = SetAdd(@, l)]
  IN IF Len(s1.listeners) = 1 /\ ~s1.isAttached THEN attachGlobalListener(s1) ELSE s1

\* Mutant: the closure forgets to detach the handler.
unsubscribeKeepsAttached(st, l) == [st EXCEPT !.listeners = SetDelete(@, l)]

\* Mutant: the closure empties the subscriber set.
unsubscribeDeletesAll(st, l) ==
  LET s1 == [st EXCEPT !.listeners = <<>>]
  IN IF s1.isAttached THEN removeGlobalListener(s1) ELSE s1

\* The closure onScan(l) returns.
unsubscribe(st, l) ==
  LET s1 == [st EXCEPT !.listeners = SetDelete(@, l)]
  IN IF Len(s1.listeners) = 0 /\ s1.isAttached THEN removeGlobalListener(s1) ELSE s1

\* Mutant: destroy() without clearBuffer().
destroyKeepsBuffer(st) == removeGlobalListener([st EXCEPT !.listeners = <<>>])

destroy(st) ==
  Discard(removeGlobalListener([st EXCEPT !.listeners = <<>>]), "destroy")

\* ------------------------------------------------------- finalization
\* The listener's body, run in state st: what it does from inside the
\* callback.  A thrown error is noted in the record of the scan being
\* delivered, the last of st.emitted.
ListenerBody(l, st) ==
  LET n == Len(st.emitted)
  IN CASE behaviour[l] = "throw" -> [st EXCEPT !.emitted[n].threw = Append(@, l)]
       [] behaviour[l] = "unsubscribe" -> unsubscribe(st, l)
       [] behaviour[l] = "unsubscribeOther" -> unsubscribe(st, Other(l))
       [] behaviour[l] = "onScanOther" -> onScan(st, Other(l))
       [] behaviour[l] = "destroy" -> destroy(st)
       [] OTHER -> st

\* Mutant: the listener called without try/catch, so its error escapes.
InvokeListenerNoCatch(l, st) ==
  LET n == Len(st.emitted)
      s1 == [st EXCEPT !.emitted[n].calls =
                         Append(@, [listener |-> l, event |-> st.emitted[n].event])]
      s2 == ListenerBody(l, s1)
  IN IF behaviour[l] = "throw"
       THEN [s2 EXCEPT !.emitted[n].escaped = TRUE, !.uncaught = TRUE]
       ELSE s2

\* One listener called with the scan event inside try/catch.  A thrown
\* error is caught and logged; it does not escape.
InvokeListener(l, st) ==
  LET n == Len(st.emitted)
      s1 == [st EXCEPT !.emitted[n].calls =
                         Append(@, [listener |-> l, event |-> st.emitted[n].event])]
  IN ListenerBody(l, s1)

\* listeners.forEach: Set.prototype.forEach walks the live set in insertion
\* order from entry i on.  An entry deleted before it is reached is not
\* visited, an entry added during the walk is; the entries before the
\* position that the callback deleted move the position back.  An error
\* that escapes ends the loop.
RECURSIVE ForEach(_, _)
ForEach(st, i) ==
  IF i > Len(st.listeners) \/ st.uncaught THEN st
  ELSE
    LET s1 == InvokeListener(st.listeners[i], st)
        kept == Cardinality({p \in 1..i : st.listeners[p] \in Range(s1.listeners)})
    IN ForEach(s1, kept + 1)

\* The ScanEvent built by finalizeScan.
ScanEvent(st, t) ==
  IF options.enableDebugEvents
    THEN [barcode |-> Join(st.buffer), timestamp |-> t, keystrokes |-> st.debugData]
    ELSE [barcode |-> Join(st.buffer), timestamp |-> t]

\* Mutant: finalizeScan deregisters the listeners it has called.
finalizeScanOnce(st, t, by) ==
  LET s1 == IF st.timeoutId # NoTimer
              THEN [ClearTimeout(st, st.timeoutId) EXCEPT !.timeoutId = NoTimer]
              ELSE st
      scan == [event |-> ScanEvent(s1, t), by |-> by, after |-> s1.prevEnd,
               subscribers |-> s1.listeners, calls |-> <<>>, threw |-> <<>>,
               escaped |-> FALSE]
      s2 == ForEach([s1 EXCEPT !.emitted = Append(@, scan)], 1)
      s3 == [s2 EXCEPT !.prevEnd = "emit", !.listeners = <<>>]
  IN IF s2.uncaught THEN s3 ELSE clearBuffer(s3)

\* Mutant: finalizeScan without the clearBuffer() that ends it.
finalizeScanKeepsBuffer(st, t, by) ==
  LET s1 == IF st.timeoutId # NoTimer
              THEN [ClearTimeout(st, st.timeoutId) EXCEPT !.timeoutId = NoTimer]
              ELSE st
      scan == [event |-> ScanEvent(s1, t), by |-> by, after |-> s1.prevEnd,
               subscribers |-> s1.listeners, calls |-> <<>>, threw |-> <<>>,
               escaped |-> FALSE]
      s2 == ForEach([s1 EXCEPT !.emitted = Append(@, scan)], 1)
  IN [s2 EXCEPT !.prevEnd = "emit"]

\* by: the callback that finalizes.  The record of the scan keeps the event,
\* the subscribers at that moment, the calls made, and how the run before
\* this one ended.
finalizeScan(st, t, by) ==
  LET s1 == IF st.timeoutId # NoTimer
              THEN [ClearTimeout(st, st.timeoutId) EXCEPT !.timeoutId = NoTimer]
              ELSE st
      scan == [event |-> ScanEvent(s1, t), by |-> by, after |-> s1.prevEnd,
               subscribers |-> s1.listeners, calls |-> <<>>, threw |-> <<>>,
               escaped |-> FALSE]
      s2 == ForEach([s1 EXCEPT !.emitted = Append(@, scan)], 1)
      s3 == [s2 EXCEPT !.prevEnd = "emit"]
  IN IF s2.uncaught THEN s3 ELSE clearBuffer(s3)

\* Mutant: resetTimeout without clearTimeout.
resetTimeoutKeepsOld(st, t) == SetTimeout(st, t)

resetTimeout(st, t) ==
  LET s1 == IF st.timeoutId # NoTimer THEN ClearTimeout(st, st.timeoutId) ELSE st
  IN SetTimeout(s1, t)

\* Mutant: the timer's length check with > for >=.
timeoutCallbackStrict(st, t) ==
  IF Len(st.buffer) > options.minBarcodeLength
    THEN finalizeScan(st, t, "timer")
    ELSE Discard(st, "idle")

\* Mutant: the timer finalizes whatever is buffered.
timeoutCallbackAlwaysEmits(st, t) == finalizeScan(st, t, "timer")

\* Mutant: the timer leaves a buffer that is too short in place.
timeoutCallbackKeepsShort(st, t) ==
  IF Len(st.buffer) >= options.minBarcodeLength
    THEN finalizeScan(st, t, "timer")
    ELSE [st EXCEPT !.timeoutId = NoTimer]

\* The callback resetTimeout gives to setTimeout.
timeoutCallback(st, t) ==
  IF Len(st.buffer) >= options.minBarcodeLength
    THEN finalizeScan(st, t, "timer")
    ELSE Discard(st, "idle")

\* Mutant: the termination key's length check with > for >=.
TerminationBranchStrict(st, t) ==
  IF Len(st.buffer) > options.minBarcodeLength
    THEN finalizeScan(st, t, "key")
    ELSE Discard(st, "short")

\* handleKeyDown, the termination key.
TerminationBranch(st, t) ==
  IF Len(st.buffer) >= options.minBarcodeLength
    THEN finalizeScan(st, t, "key")
    ELSE Discard(st, "short")

\* Mutant: a full buffer is emitted instead of dropped.
OverflowBranchEmits(st, t) == finalizeScan(st, t, "key")

\* handleKeyDown, a key that finds the buffer full.
OverflowBranch(st, t) == Discard(st, "overflow")

\* Mutant: a key is buffered without resetTimeout().
AcceptKeyNoTimer(st, key, t, delay) ==
  [st EXCEPT
     !.buffer = Append(@, key),
     !.debugData =
       IF options.enableDebugEvents
         THEN Append(@, [key |-> key, timestamp |-> t, delay |-> delay])
         ELSE @]

\* handleKeyDown, a key that is buffered.
AcceptKey(st, key, t, delay) ==
  LET s1 == [st EXCEPT
               !.buffer = Append(@, key),
               !.debugData =
                 IF options.enableDebugEvents
                   THEN Append(@, [key |-> key, timestamp |-> t, delay |-> delay])
                   ELSE @]
  IN resetTimeout(s1, t)

\* Mutant: without the ignore filter, so that a key with a long name is
\* buffered like a character.
handleKeyDownNoFilter(st, key, t) ==
  LET delay == IF st.lastKeystrokeTime # 0 THEN t - st.lastKeystrokeTime ELSE 0
      s1 == [st EXCEPT !.lastKeystrokeTime = t]
  IN IF key = options.terminationKey THEN TerminationBranch(s1, t)
     ELSE IF Len(s1.buffer) >= options.maxBarcodeLength THEN OverflowBranch(s1, t)
     ELSE AcceptKey(s1, key, t, delay)

\* Mutant: the overflow guard compares with > for >=.
handleKeyDownLateGuard(st, key, t) ==
  IF Len(key) > 1 /\ key # options.terminationKey THEN st
  ELSE
    LET delay == IF st.lastKeystrokeTime # 0 THEN t - st.lastKeystrokeTime ELSE 0
        s1 == [st EXCEPT !.lastKeystrokeTime = t]
    IN IF key = options.terminationKey THEN TerminationBranch(s1, t)
       ELSE IF Len(s1.buffer) > options.maxBarcodeLength THEN OverflowBranch(s1, t)
       ELSE AcceptKey(s1, key, t, delay)

handleKeyDown(st, key, t) ==
  IF Len(key) > 1 /\ key # options.terminationKey THEN st
  ELSE
    LET delay == IF st.lastKeystrokeTime # 0 THEN t - st.lastKeystrokeTime ELSE 0
        s1 == [st EXCEPT !.lastKeystrokeTime = t]
    IN IF key = options.terminationKey THEN TerminationBranch(s1, t)
       ELSE IF Len(s1.buffer) >= options.maxBarcodeLength THEN OverflowBranch(s1, t)
       ELSE AcceptKey(s1, key, t, delay)

\* Whether handleKeyDown suppressed the default action of the event with this
\* key: it never calls event.preventDefault().
DefaultPrevented(key) == FALSE

\* ------------------------------------------------------------------ state
\* What is recorded of an operation that left st behind: the length of the
\* buffer it found and, for a keydown event, whether it reached the handler
\* and whether its default action was suppressed.
Did(op, arg, seen, prevented, st) ==
  [op |-> op, arg |-> arg, seen |-> seen, prevented |-> prevented,
   had |-> Len(buffer), emitted |-> st.emitted, uncaught |-> st.uncaught,
   dropped |-> st.dropped]

\* What the keyboard's record keeps of the scans a callback emitted.
RECURSIVE Codes(_)
Codes(em) ==
  IF em = <<>> THEN <<>>
  ELSE <<[barcode |-> Head(em).event.barcode, by |-> Head(em).by]>> \o Codes(Tail(em))

\* The state after construction, whatever the options and the listeners'
\* behaviour.
Constructed ==
  /\ listeners = <<>>
  /\ buffer = <<>>
  /\ debugData = <<>>
  /\ lastKeystrokeTime = 0
  /\ timeoutId = NoTimer
  /\ isAttached = FALSE
  /\ now = 1
  /\ timers = {}
  /\ observer = FALSE
  /\ redundant = FALSE
  /\ closures = {}
  /\ registered = {}
  /\ unsubscribed = {}
  /\ typed = <<>>
  /\ lastPress = 0
  /\ closed = FALSE
  /\ covered = FALSE
  /\ runScans = <<>>
  /\ prevEnd = "none"
  /\ last = Did("init", "", FALSE, FALSE, Cur)

\* L1 returns and L2 throws.
Init ==
  /\ options \in OptionSets
  /\ behaviour = [l \in Listeners |-> IF l \in Faulty THEN "throw" ELSE "return"]
  /\ Constructed

\* A pending timer has reached its deadline.
TimerDue == \E tm \in timers : tm.due <= now

\* A key the handler does not ignore.
Handled(k) == ~(Len(k) > 1 /\ k # options.terminationKey)

\* ---------------------------------------------------------------- actions
\* The application calls detector.onScan(l).
OnScan(l) ==
  LET st == onScan(Cur, l)
  IN /\ Becomes(st)
     /\ closures' = closures \cup {l}
     /\ registered' = registered \cup {l}
     /\ unsubscribed' = unsubscribed \ {l}
     /\ last' = Did("onScan", l, FALSE, FALSE, st)
     /\ UNCHANGED <<options, behaviour, now, kbdVars>>

\* The application calls an unsubscribe closure that onScan(l) returned.
Unsubscribe(l) ==
  LET st == unsubscribe(Cur, l)
  IN /\ l \in closures
     /\ Becomes(st)
     /\ covered' = (covered /\ st.listeners # <<>>)
     /\ registered' = registered \ {l}
     /\ unsubscribed' = unsubscribed \cup {l}
     /\ last' = Did("unsubscribe", l, FALSE, FALSE, st)
     /\ UNCHANGED <<options, behaviour, now, closures, typed, lastPress, closed, runScans>>

\* The application calls detector.destroy().
Destroy ==
  LET st == destroy(Cur)
  IN /\ Becomes(st)
     /\ typed' = <<>> /\ lastPress' = 0 /\ closed' = FALSE
     /\ covered' = FALSE /\ runScans' = <<>>
     /\ registered' = {}
     /\ last' = Did("destroy", "", FALSE, FALSE, st)
     /\ UNCHANGED <<options, behaviour, now, closures, unsubscribed>>

\* The host dispatches a keydown event with key k: handleKeyDown runs when
\* it is registered on document.  A key starts a new run after a termination
\* key, after destroy() and after a gap of maxDelay or more.
KeyDown(k) ==
  LET st == IF observer THEN handleKeyDown(Cur, k, now) ELSE Cur
      fresh == closed \/ typed = <<>> \/ now - lastPress >= options.maxDelay
  IN /\ ~TimerDue
     /\ (Handled(k) /\ k # options.terminationKey /\ ~fresh) => Len(typed) < MaxRun
     /\ Becomes(st)
     /\ last' = Did("key", k, observer, observer /\ DefaultPrevented(k), st)
     /\ IF ~observer \/ ~Handled(k)
          THEN UNCHANGED kbdVars
          ELSE IF k = options.terminationKey
            THEN IF closed \/ typed = <<>>
              THEN /\ typed' = <<>> /\ lastPress' = 0 /\ closed' = FALSE
                   /\ covered' = FALSE /\ runScans' = <<>>
              ELSE /\ closed' = TRUE /\ lastPress' = 0
                   /\ runScans' = runScans \o Codes(st.emitted)
                   /\ UNCHANGED <<typed, covered>>
            ELSE IF fresh
              THEN /\ typed' = <<k>> /\ lastPress' = now /\ closed' = FALSE
                   /\ covered' = TRUE /\ runScans' = <<>>
              ELSE /\ typed' = Append(typed, k) /\ lastPress' = now
                   /\ UNCHANGED <<closed, covered, runScans>>
     /\ UNCHANGED <<options, behaviour, now, closures, appVars>>

\* The host runs the callback of a timer that is due.
TimerFire(tm) ==
  /\ tm.due <= now
  /\ \E st \in {timeoutCallback([Cur EXCEPT !.timers = @ \ {tm}], now)} :
       /\ Becomes(st)
       /\ runScans' = runScans \o Codes(st.emitted)
       /\ last' = Did("timer", "", FALSE, FALSE, st)
  /\ UNCHANGED <<options, behaviour, now, closures, appVars, typed, lastPress, closed, covered>>

\* A millisecond passes; a due timer fires first.
Tick ==
  /\ now < MaxTime
  /\ ~TimerDue
  /\ now' = now + 1
  /\ UNCHANGED <<detectorVars, timers, observer, redundant, closures, appVars, behaviour,
                 kbdVars, prevEnd, last>>

Next ==
  \/ \E l \in Listeners : OnScan(l)
  \/ \E l \in Listeners : Unsubscribe(l)
  \/ Destroy
  \/ \E k \in Keys : KeyDown(k)
  \/ \E tm \in timers : TimerFire(tm)
  \/ Tick

Spec == Init /\ [][Next]_vars

\* The same program on a keyboard that can also report a key event whose
\* key is the empty string (new KeyboardEvent("keydown", { key: "" })).
KeysWithEmpty == {"", "a", "Enter"}

NextEmptyKey ==
  \/ \E l \in Listeners : OnScan(l)
  \/ \E l \in Listeners : Unsubscribe(l)
  \/ Destroy
  \/ \E k \in KeysWithEmpty : KeyDown(k)
  \/ \E tm \in timers : TimerFire(tm)
  \/ Tick

SpecEmptyKey == Init /\ [][NextEmptyKey]_vars

\* The same program with a listener L1 of any behaviour and a listener L2
\* that returns or registers L1, on a keyboard of one character key and the
\* termination key.
InitReentrant ==
  /\ options = SmallDefaults
  /\ behaviour \in {b \in [Listeners -> Behaviours] : b["L2"] \in {"return", "onScanOther"}}
  /\ Constructed

KeysReentrant == {"a", "Enter"}

NextReentrant ==
  \/ \E l \in Listeners : OnScan(l)
  \/ \E l \in Listeners : Unsubscribe(l)
  \/ Destroy
  \/ \E k \in KeysReentrant : KeyDown(k)
  \/ \E tm \in timers : TimerFire(tm)
  \/ Tick

SpecReentrant == InitReentrant /\ [][NextReentrant]_vars

\* The same program with a host that keeps its promises: the clock goes on
\* and a timer that is due is run.  Keys arrive while the clock can still
\* reach the deadline of the timer they arm.  One application listener
\* subscribes; what it does when called is any behaviour that involves no
\* second listener.
LiveListeners == {"L1"}

LiveBehaviours == {"return", "throw", "unsubscribe", "destroy"}

InitLive ==
  /\ options = SmallDefaults
  /\ \E b \in LiveBehaviours : behaviour = [l \in Listeners |-> b]
  /\ Constructed

KeyDownInTime(k) == now + options.maxDelay <= MaxTime /\ KeyDown(k)

FireDue == \E tm \in timers : TimerFire(tm)

NextLive ==
  \/ \E l \in LiveListeners : OnScan(l)
  \/ \E l \in LiveListeners : Unsubscribe(l)
  \/ Destroy
  \/ \E k \in KeysReentrant : KeyDownInTime(k)
  \/ FireDue
  \/ Tick

SpecLive == InitLive /\ [][NextLive]_vars /\ WF_vars(Tick) /\ WF_vars(FireDue)

\* ------------------------------------------------------- claim vocabulary
\* Every key of the run is a single character.
AllChars(s) == \A i \in 1..Len(s) : Len(s[i]) = 1

\* The run of keys was delivered with a subscriber present throughout.
RunCovered == typed # <<>> /\ covered /\ AllChars(typed)

\* The run has between minBarcodeLength and maxBarcodeLength keys.
RunInRange ==
  Len(typed) >= options.minBarcodeLength /\ Len(typed) <= options.maxBarcodeLength

\* No termination key ended the run, no key arrived for maxDelay since its
\* last key, and every timer that was due has run.
RunIdle ==
  typed # <<>> /\ ~closed /\ now - lastPress >= options.maxDelay /\ ~TimerDue

\* Buffer, trace, last-event timestamp and timer are reset.
TransientReset ==
  /\ buffer = <<>> /\ debugData = <<>> /\ lastKeystrokeTime = 0
  /\ timeoutId = NoTimer /\ timers = {}

\* The last operation was the handler's run for the termination key, or an
\* inactivity timer's callback.
EndedByKey == last.op = "key" /\ last.seen /\ last.arg = options.terminationKey
EndedByTimer == last.op = "timer"

\* The last operation was the handler's run for a key it buffers or drops.
CharHandled ==
  /\ last.op = "key" /\ last.seen
  /\ Handled(last.arg) /\ last.arg # options.terminationKey

\* The listeners a scan was delivered to, in call order.
RECURSIVE Called(_)
Called(calls) ==
  IF calls = <<>> THEN <<>> ELSE <<Head(calls).listener>> \o Called(Tail(calls))

\* The keys of a keystroke trace, in order.
RECURSIVE TraceKeys(_)
TraceKeys(ks) == IF ks = <<>> THEN <<>> ELSE <<Head(ks).key>> \o TraceKeys(Tail(ks))

\* The suffixes of a run of keys, the empty one included.
Suffixes(s) == {SubSeq(s, i, Len(s)) : i \in 1..(Len(s) + 1)}

\* The detector's fields and the host's tables in a callback's state.
Program(st) ==
  [listeners |-> st.listeners, buffer |-> st.buffer, debugData |-> st.debugData,
   lastKeystrokeTime |-> st.lastKeystrokeTime, timeoutId |-> st.timeoutId,
   isAttached |-> st.isAttached, timers |-> st.timers, observer |-> st.observer]

\* ------------------------------------------------------------------ C1
\* C1 as stated: for a covered run of minBarcodeLength or more fast character
\* keys closed by the termination key, exactly one scan was emitted, the
\* keys concatenated in arrival order.
C1_AnyLengthRunThenTerminationEmitsOnce ==
  (closed /\ RunCovered /\ Len(typed) >= options.minBarcodeLength)
    => Len(runScans) = 1 /\ runScans[1].barcode = Join(typed)

\* C1 amended: the same for runs of minBarcodeLength to maxBarcodeLength
\* keys.
C1_RunThenTerminationEmitsOnce ==
  (closed /\ RunCovered /\ RunInRange)
    => Len(runScans) = 1 /\ runScans[1].barcode = Join(typed)

C1_Witness ==
  /\ EndedByKey
  /\ closed /\ RunCovered /\ typed = <<"a", "b">>
  /\ runScans = <<[barcode |-> "ab", by |-> "key"]>>
  /\ Len(last.emitted) = 1 /\ last.emitted[1].calls # <<>>

\* ------------------------------------------------------------------ C2
\* C2: a covered run of minBarcodeLength to maxBarcodeLength fast character
\* keys with no termination key: until maxDelay has passed since its last
\* key nothing is emitted and one timer is pending for that moment; once it
\* has passed, the timer has emitted exactly one scan, the keys concatenated
\* in order, and the buffer is empty.
C2_IdleRunEmittedByTimer ==
  (~closed /\ RunCovered /\ RunInRange)
    => IF now - lastPress < options.maxDelay
         THEN /\ runScans = <<>>
              /\ timers = {[id |-> timeoutId, due |-> lastPress + options.maxDelay]}
         ELSE ~TimerDue =>
                /\ runScans = <<[barcode |-> Join(typed), by |-> "timer"]>>
                /\ buffer = <<>>

C2_Witness ==
  /\ EndedByTimer
  /\ RunCovered /\ RunIdle /\ typed = <<"b", "a">>
  /\ runScans = <<[barcode |-> "ba", by |-> "timer"]>>
  /\ Len(last.emitted) = 1 /\ last.emitted[1].calls # <<>>
  /\ now = lastPress + options.maxDelay

\* ------------------------------------------------------------------ C3
\* C3: when the termination key or the timer finds fewer than
\* minBarcodeLength keys buffered, no scan is emitted and buffer, trace,
\* timestamp and timer are reset; and the scan emitted for a covered run of
\* minBarcodeLength to maxBarcodeLength keys that follows such a discard
\* holds exactly the keys of that run.
C3_ShortRunDiscardedAndReset ==
  /\ ((EndedByKey \/ EndedByTimer) /\ last.had < options.minBarcodeLength)
       => last.emitted = <<>> /\ last.dropped = last.had /\ TransientReset
  /\ \A i \in 1..Len(last.emitted) :
       (last.emitted[i].after \in {"short", "idle"} /\ RunCovered /\ RunInRange)
         => /\ Len(last.emitted) = 1
            /\ last.emitted[i].event.barcode = Join(typed)
            /\ TransientReset

C3_Witness ==
  /\ Len(last.emitted) = 1
  /\ last.emitted[1].after = "short"
  /\ last.emitted[1].event.barcode = "ab"
  /\ RunCovered /\ typed = <<"a", "b">>

\* ------------------------------------------------------------------ C4
\* C4 as stated: once a gap of maxDelay or more follows a run that no
\* termination key ended, the run is discarded: nothing was emitted for it.
C4_RunBeforeGapNeverEmitted == RunIdle => runScans = <<>> /\ buffer = <<>>

\* C4 amended: once such a gap has passed the timer has ended the run: the
\* buffer is empty and no timer is pending, and a run of fewer than
\* minBarcodeLength keys was never emitted (a longer one is emitted by the
\* timer, C2).
C4_ShortRunBeforeGapNeverEmitted ==
  RunIdle => /\ buffer = <<>> /\ timeoutId = NoTimer /\ timers = {}
             /\ Len(typed) < options.minBarcodeLength => runScans = <<>>

C4_Witness ==
  /\ RunIdle /\ EndedByTimer
  /\ Len(typed) = 1 /\ last.had = 1 /\ last.dropped = 1
  /\ runScans = <<>>

C6_DefaultSuppressedIffConfigured ==
  last.op = "key"
    => (last.prevented <=> (options.preventDefault /\ last.seen /\ Handled(last.arg)))

\* ------------------------------------------------------------------ C7
\* C7: while the subscriber set is empty no inactivity timer fires and no
\* keydown event reaches the handler.
C7_NothingRunsWithoutSubscribers ==
  listeners = <<>> => last.op # "timer" /\ (last.op = "key" => ~last.seen)

\* ------------------------------------------------------------------ C8
\* C8: the keydown handler is registered on the host exactly when the
\* subscriber set is non-empty, the detector's flag agrees, and
\* addEventListener was never called while registered nor
\* removeEventListener while not.
C8_AttachedIffSubscribers ==
  /\ observer <=> listeners # <<>>
  /\ isAttached <=> observer
  /\ ~redundant

C8_Witness ==
  /\ last.op = "unsubscribe"
  /\ closures = Listeners
  /\ listeners = <<>> /\ ~observer /\ ~isAttached

\* ------------------------------------------------------------------ C9
\* C9: after destroy() the subscriber set is empty, the handler detached,
\* buffer and trace empty, the timestamp 0 and no timer pending; a further
\* destroy(), or destroy() on a detector that never had a subscriber,
\* changes nothing and lets no error escape.
C9_DestroyResetsAndIsIdempotent ==
  /\ last.op = "destroy"
       => /\ listeners = <<>> /\ ~observer /\ ~isAttached
          /\ TransientReset
          /\ ~last.uncaught
  /\ (last.op = "destroy" \/ closures = {})
       => /\ Program(destroy(Cur)) = Program(Cur)
          /\ ~destroy(Cur).uncaught

C9_Witness ==
  /\ last.op = "destroy"
  /\ last.had = options.minBarcodeLength
  /\ last.dropped = last.had
  /\ closures = Listeners

\* ------------------------------------------------------------------ C10
\* C10: when a listener throws during a scan's delivery, every subscriber
\* was still called exactly once, in order, with the same event, no error
\* escaped the callback, and buffer, trace, timestamp and timer are reset.
C10_ThrowingListenerIsIsolated ==
  \A i \in 1..Len(last.emitted) :
    LET e == last.emitted[i]
    IN e.threw # <<>>
         => /\ Len(e.calls) = Len(e.subscribers)
            /\ \A j \in 1..Len(e.calls) :
                 e.calls[j].listener = e.subscribers[j] /\ e.calls[j].event = e.event
            /\ ~last.uncaught
            /\ TransientReset

C10_Witness ==
  /\ Len(last.emitted) = 1
  /\ last.emitted[1].threw = <<"L2">>
  /\ last.emitted[1].subscribers = <<"L2", "L1">>
  /\ Len(last.emitted[1].calls) = 2
  /\ last.emitted[1].calls[2].listener = "L1"

\* ------------------------------------------------------------------ C11
\* C11: the subscriber set holds exactly the listeners the application
\* registered and has not deregistered since, none of them one whose
\* unsubscribe closure was called since its last registration; every scan is
\* delivered to exactly these listeners; and calling the closure of l takes
\* l, and nothing else, out of the set.
C11_UnsubscribeDeregistersExactlyThat ==
  /\ Range(listeners) = registered
  /\ unsubscribed \cap Range(listeners) = {}
  /\ \A i \in 1..Len(last.emitted) : Range(Called(last.emitted[i].calls)) = registered
  /\ \A l \in closures : Range(unsubscribe(Cur, l).listeners) = Range(listeners) \ {l}

C11_Witness ==
  /\ unsubscribed = {"L2"} /\ registered = {"L1"}
  /\ Len(last.emitted) = 1
  /\ last.emitted[1].subscribers = <<"L1">>
  /\ Called(last.emitted[1].calls) = <<"L1">>

\* ------------------------------------------------------------------ C12
\* C12: the subscriber set holds no listener twice and no scan is delivered
\* to a listener twice; onScan(l) for a listener already registered changes
\* neither the set nor the registration on the host, which was never made
\* redundantly; and after that second onScan(l) one call of an unsubscribe
\* closure of l removes l, the other closure then changing nothing.
C12_SecondRegistrationIsIdempotent ==
  /\ \A i, j \in 1..Len(listeners) : listeners[i] = listeners[j] => i = j
  /\ \A n \in 1..Len(last.emitted) :
       LET c == Called(last.emitted[n].calls)
       IN \A i, j \in 1..Len(c) : c[i] = c[j] => i = j
  /\ ~redundant
  /\ \A l \in Range(listeners) :
       LET twice == onScan(Cur, l)
           once == unsubscribe(twice, l)
       IN /\ Program(twice) = Program(Cur) /\ ~twice.redundant
          /\ Range(once.listeners) = Range(listeners) \ {l}
          /\ Program(unsubscribe(once, l)) = Program(once)

\* onScan("L1") was called while L1 was registered (a first registration
\* would have put L1 behind L2), with a key buffered.
C12_Witness ==
  /\ last.op = "onScan" /\ last.arg = "L1"
  /\ listeners = <<"L1", "L2">>
  /\ observer /\ buffer # <<>>

\* ------------------------------------------------------------------ C13
\* C13: a keydown event whose key is the empty string changes nothing of
\* buffer, trace, timestamp and timer and emits nothing, in every state in
\* which the handler is registered; no buffered key is the empty string; and
\* no scan is emitted whose keys were all empty strings.
C13_EmptyKeyIgnored ==
  /\ observer =>
       LET st == handleKeyDown(Cur, "", now)
       IN Program(st) = Program(Cur) /\ st.emitted = <<>>
  /\ \A i \in 1..Len(buffer) : buffer[i] # ""
  /\ \A i \in 1..Len(last.emitted) : last.emitted[i].event.barcode # ""

\* ------------------------------------------------------------------ C14
\* C14: with enableDebugEvents set, every emitted scan has a keystrokes
\* trace with one entry per character of the barcode, the entries' keys
\* being the barcode's characters in order, each stamped no later than the
\* scan, the first with delay 0 and every later one with the time since the
\* entry before it; without enableDebugEvents no emitted scan has a
\* keystrokes field.
C14_DebugTraceMatchesBarcode ==
  \A n \in 1..Len(last.emitted) :
    LET e == last.emitted[n].event
    IN IF options.enableDebugEvents
         THEN /\ "keystrokes" \in DOMAIN e
              /\ Len(e.keystrokes) = Len(e.barcode)
              /\ AllChars(TraceKeys(e.keystrokes))
              /\ Join(TraceKeys(e.keystrokes)) = e.barcode
              /\ e.keystrokes[1].delay = 0
              /\ \A i \in 2..Len(e.keystrokes) :
                   e.keystrokes[i].delay =
                     e.keystrokes[i].timestamp - e.keystrokes[i - 1].timestamp
              /\ e.keystrokes[Len(e.keystrokes)].timestamp <= e.timestamp
         ELSE DOMAIN e = {"barcode", "timestamp"}

C17_NoBarcodeSpansSlowGap ==
  /\ (typed # <<>> /\ now - lastPress >= options.maxDelay /\ ~TimerDue)
       => buffer = <<>> /\ timers = {}
  /\ (CharHandled /\ Len(typed) = 1) => last.had = 0 /\ buffer = typed
  /\ buffer \in Suffixes(typed)
  /\ \A n \in 1..Len(last.emitted) :
       \E s \in Suffixes(typed) : last.emitted[n].event.barcode = Join(s)

\* The timer emits the run "ba", which began after the timer had discarded
\* the run before it maxDelay after that run's last key: "ba" alone is
\* delivered.
C17_Witness ==
  /\ EndedByTimer
  /\ Len(last.emitted) = 1
  /\ last.emitted[1].after = "idle"
  /\ last.emitted[1].event.barcode = "ba"
  /\ typed = <<"b", "a">>
  /\ now = MaxTime

\* ------------------------------------------------------------------ C18
\* C18: at most one timer is pending, and it is the one timeoutId names,
\* due maxDelay after the last buffered key; no timer is pending while the
\* buffer is empty, so that a timer's callback always finds the keys of the
\* run that armed it and ends that run, and a cancelled timer (no longer in
\* the host's table) is never run.
C18_AtMostOneTimer ==
  /\ Cardinality(timers) <= 1
  /\ timers = IF timeoutId = NoTimer THEN {}
              ELSE {[id |-> timeoutId, due |-> lastKeystrokeTime + options.maxDelay]}
  /\ timers # {} => buffer # <<>>
  /\ EndedByTimer => /\ last.had >= 1
                     /\ last.dropped + Len(last.emitted) >= 1
                     /\ (last.dropped = 0 \/ last.emitted = <<>>)
                     /\ TransientReset

\* A key re-armed the timer while one was pending: one timer is left, due
\* maxDelay after that key and later than the one it replaced.
C18_Witness ==
  /\ CharHandled
  /\ last.had = 1 /\ Len(buffer) = 2
  /\ lastKeystrokeTime = 2 /\ now = 2
  /\ timers = {[id |-> timeoutId, due |-> 2 + options.maxDelay]}

\* ------------------------------------------------------------------ C19
\* C19: in every state, a keydown event whose key is longer than one
\* character and is not the termination key leaves the detector's fields
\* and the host's timer table (the pending timer and its deadline) as they
\* are and emits nothing, whether or not the handler is registered; and no
\* such key is ever in the buffer.
C19_LongKeyChangesNothing ==
  /\ \A k \in Keys :
       ~Handled(k) =>
         LET st == handleKeyDown(Cur, k, now)
         IN /\ Program(st) = Program(Cur)
            /\ st.emitted = <<>> /\ st.dropped = 0 /\ ~st.uncaught
  /\ (last.op = "key" /\ ~Handled(last.arg)) => last.emitted = <<>> /\ last.dropped = 0
  /\ \A i \in 1..Len(buffer) : Handled(buffer[i])

\* Shift was pressed during a run of two keys with the timer pending: a
\* millisecond after the run's last key the buffer, the timestamp and the
\* timer with its deadline are those that key left.
C19_Witness ==
  /\ last.op = "key" /\ last.seen /\ last.arg = "Shift"
  /\ last.had = 2 /\ Len(buffer) = 2
  /\ lastKeystrokeTime = now - 1
  /\ timers = {[id |-> timeoutId, due |-> now - 1 + options.maxDelay]}

\* ------------------------------------------------------------------ C20
\* C20: for every scan, each listener that was in the subscriber set when
\* its finalization started was called exactly once with the scan's event,
\* whatever the listeners do inside the callback.
C20_EverySubscriberCalledOnce ==
  \A n \in 1..Len(last.emitted) :
    LET e == last.emitted[n]
    IN \A l \in Range(e.subscribers) :
         Cardinality({j \in 1..Len(e.calls) :
                        e.calls[j].listener = l /\ e.calls[j].event = e.event}) = 1

\* ------------------------------------------------------------------ C21
\* C21: every emitted scan, by the termination key or by the timer, has a
\* barcode of minBarcodeLength to maxBarcodeLength characters.
C21_BarcodeLengthInRange ==
  \A n \in 1..Len(last.emitted) :
    /\ last.emitted[n].by \in {"key", "timer"}
    /\ Len(last.emitted[n].event.barcode) >= options.minBarcodeLength
    /\ Len(last.emitted[n].event.barcode) <= options.maxBarcodeLength

\* ------------------------------------------------------------------ C22
\* C22: the keys handled in arrival order form the run (typed).  The buffer
\* is always the latest keys of the run; a scan's barcode is the whole
\* buffer its callback found, that is the latest keys of the run in their
\* order, and leaves the buffer empty, as does a discard, so that no key is
\* carried over; and no run gives more than one scan, so that no key is in
\* two scans.
C22_EachKeyInAtMostOneScan ==
  /\ buffer \in Suffixes(typed)
  /\ \A n \in 1..Len(last.emitted) :
       /\ last.had <= Len(typed)
       /\ last.emitted[n].event.barcode =
            Join(SubSeq(typed, Len(typed) - last.had + 1, Len(typed)))
       /\ buffer = <<>>
  /\ Len(last.emitted) <= 1
  /\ last.dropped > 0 => buffer = <<>>
  /\ Len(runScans) <= 1

\* The termination key emits "ba" right after another scan was emitted:
\* the barcode holds the two keys of its own run and nothing of the scan
\* before.
C22_Witness ==
  /\ EndedByKey
  /\ Len(last.emitted) = 1
  /\ last.emitted[1].after = "emit"
  /\ last.emitted[1].event.barcode = "ba"
  /\ typed = <<"b", "a">> /\ last.had = 2
  /\ runScans = <<[barcode |-> "ba", by |-> "key"]>>

\* ------------------------------------------------------------------ C23
\* C23: between callbacks a timer is pending exactly when the buffer is
\* non-empty, and lastKeystrokeTime is 0 exactly when the buffer is empty,
\* so that the first key of the trace has delay 0.
C23_TimerAndTimestampFollowBuffer ==
  /\ timers # {} <=> buffer # <<>>
  /\ timeoutId # NoTimer <=> buffer # <<>>
  /\ lastKeystrokeTime = 0 <=> buffer = <<>>
  /\ debugData # <<>> => debugData[1].delay = 0

\* The first key of a run that follows a run the timer discarded, with the
\* debug trace on: it was handled at time 3, is traced with delay 0, and its
\* timer is pending.
C23_Witness ==
  /\ CharHandled /\ last.had = 0
  /\ options.enableDebugEvents
  /\ prevEnd = "idle"
  /\ debugData = <<[key |-> "b", timestamp |-> 3, delay |-> 0]>>
  /\ lastKeystrokeTime = 3
  /\ timers = {[id |-> timeoutId, due |-> 3 + options.maxDelay]}

\* ------------------------------------------------------------------ C24
\* C24: a buffer that holds keys is eventually empty, whatever else
\* happens and also with no subscriber left: with no further key the timer
\* armed by its last key runs and emits or discards it.
C24_BufferEventuallyEmptied == (buffer # <<>>) ~> (buffer = <<>>)

\* The timer has run with no subscriber left and emptied a buffer of two
\* keys, maxDelay after the last of them.
C24_Witness ==
  /\ EndedByTimer
  /\ listeners = <<>> /\ ~observer
  /\ last.had = 2 /\ buffer = <<>> /\ timers = {}
  /\ now = lastPress + options.maxDelay

\* ------------------------------------------------------------------ C25
\* Calling now the unsubscribe closure of listener l changes nothing of the
\* program and raises no error.
UnsubscribeIsNoOp(l) ==
  /\ Program(unsubscribe(Cur, l)) = Program(Cur)
  /\ unsubscribe(Cur, l).uncaught = Cur.uncaught

\* C25: once an unsubscribe closure has been called, calling it again is a
\* no-op from then on, in every state the program reaches afterwards: the
\* subscriber set and the attachment stay as they are, no listener that a
\* later onScan call registered is removed, and no error is raised.
C25_RepeatedUnsubscribeIsNoOp ==
  \A l \in LiveListeners : [](l \in unsubscribed => [](UnsubscribeIsNoOp(l)))
====
